---- MODULE Spec2Model ----
(***************************************************************************)
(* A model of neptune's ExtractSignatures.py: the candidate scanner        *)
(* (extract), the parameter estimators, the k-mer classifier (buildKMers)  *)
(* and the threshold resolution of parse.                                  *)
(*                                                                         *)
(* Nucleotide strings are sequences of one-letter strings; a Python dict   *)
(* used only for membership (inmers, exmers) is the set of its keys; the   *)
(* references dict is the sequence of its (key, value) pairs in iteration  *)
(* order.  An argument passed as None is recorded by its name in noneArgs. *)
(***************************************************************************)
EXTENDS Integers, Sequences, FiniteSets, TLC

\* ------------------------------------------------------------------ bounds
MaxRefLen == 5
MaxRefs == 2
MaxK == 2
MaxGap == 1
MaxSize == 2

\* ------------------------------------------------------------- nucleotides
Bases == {"A", "C", "G", "T"}

\* The drawn references are written in RefBases and the drawn k-mer sets in
\* SetBases: a window of "C"s is matched by the forward k-mer, a window of
\* "A"s through its reverse complement, a window of "T"s.
RefBases == {"A", "C"}

SetBases == {"C", "T"}

Whitespace == {" ", "\n", "\t"}

Complement(b) ==
    CASE b = "A" -> "T"
      [] b = "T" -> "A"
      [] b = "C" -> "G"
      [] b = "G" -> "C"
      [] OTHER -> b

\* Utility.reverseComplement: reverse the strand, complement every base.
reverseComplement(s) ==
    [j \in 1..Len(s) |-> Complement(s[Len(s) + 1 - j])]

\* str.strip(): drop leading and trailing whitespace.
RECURSIVE LStrip(_)
LStrip(s) ==
    IF s # <<>> /\ Head(s) \in Whitespace THEN LStrip(Tail(s)) ELSE s

RECURSIVE RStrip(_)
RStrip(s) ==
    IF s # <<>> /\ s[Len(s)] \in Whitespace
    THEN RStrip(SubSeq(s, 1, Len(s) - 1)) ELSE s

Strip(s) == RStrip(LStrip(s))

\* Python's s[a:b]: a negative index counts from the end, both are clamped.
SliceIndex(s, x) ==
    IF x < 0 THEN (IF x + Len(s) < 0 THEN 0 ELSE x + Len(s))
    ELSE (IF x > Len(s) THEN Len(s) ELSE x)

Slice(s, a, b) ==
    LET lo == SliceIndex(s, a)
        hi == SliceIndex(s, b)
    IN  IF lo < hi THEN SubSeq(s, lo + 1, hi) ELSE <<>>

\* range(len(ref.strip()) - k + 1)
NumWindows(ref, kk) ==
    IF Len(Strip(ref)) - kk + 1 > 0 THEN Len(Strip(ref)) - kk + 1 ELSE 0

\* ---------------------------------------------------------------- numbers
\* A float is modelled by the exact rational it stands for, [n, d] in lowest
\* terms with d > 0.
Abs(x) == IF x < 0 THEN -x ELSE x

RECURSIVE GCD(_, _)
GCD(a, b) == IF b = 0 THEN a ELSE GCD(b, a % b)

Rat(n, d) ==
    LET g == GCD(Abs(n), Abs(d))
        sgn == IF d < 0 THEN -1 ELSE 1
    IN  [n |-> (sgn * n) \div g, d |-> (sgn * d) \div g]

Zero == Rat(0, 1)

One == Rat(1, 1)

FromInt(x) == Rat(x, 1)

RAdd(a, b) == Rat(a.n * b.d + b.n * a.d, a.d * b.d)

RSub(a, b) == Rat(a.n * b.d - b.n * a.d, a.d * b.d)

RMul(a, b) == Rat(a.n * b.n, a.d * b.d)

RDiv(a, b) == Rat(a.n * b.d, a.d * b.n)

RLt(a, b) == a.n * b.d < b.n * a.d

RLe(a, b) == a.n * b.d <= b.n * a.d

RSquare(a) == RMul(a, a)

\* math.pow(a, e) for an integer e >= 0
RECURSIVE RPow(_, _)
RPow(a, e) == IF e <= 0 THEN One ELSE RMul(a, RPow(a, e - 1))

RFloor(a) == a.n \div a.d

RCeil(a) == -((-a.n) \div a.d)

RMax(a, b) == IF RLt(a, b) THEN b ELSE a

\* math.ceil(m + math.sqrt(v)) for v >= 0: the least integer x >= m with
\* (x - m)^2 >= v
RECURSIVE CeilFrom(_, _, _)
CeilFrom(x, m, v) ==
    IF RLe(v, RSquare(RSub(FromInt(x), m))) THEN x ELSE CeilFrom(x + 1, m, v)

CeilPlusSqrt(m, v) == CeilFrom(RCeil(m), m, v)

\* math.floor(t - math.sqrt(v)) for v >= 0: the greatest integer x <= t with
\* (t - x)^2 >= v
RECURSIVE FloorFrom(_, _, _)
FloorFrom(x, t, v) ==
    IF RLe(v, RSquare(RSub(t, FromInt(x)))) THEN x ELSE FloorFrom(x - 1, t, v)

FloorMinusSqrt(t, v) == FloorFrom(RFloor(t), t, v)

\* scipy.stats.norm.ppf at the confidence levels drawn here: ppf(1/2) = 0 and
\* ppf(19/20) = 1.645 to three decimals
NormPpf(c) == IF c = Rat(19, 20) THEN Rat(329, 200) ELSE Zero

\* the outcome of a call: a returned value or a raised error
Return(v) == [ok |-> TRUE, value |-> v, error |-> ""]

Raise(msg) == [ok |-> FALSE, value |-> Zero, error |-> msg]

OutOfUnitRange(x) == RLt(x, Zero) \/ RLt(One, x)

\* -------------------------------------------------------------- estimators
calculateProbHBMM(GC) ==
    IF OutOfUnitRange(GC) THEN Raise("The GC-content is out of range.")
    ELSE LET a == RDiv(GC, RAdd(GC, One))
             b == RDiv(RSub(One, GC), RAdd(GC, One))
             c == RDiv(RSub(One, GC), RSub(FromInt(2), GC))
             d == RDiv(GC, RSub(FromInt(2), GC))
         IN  Return(RAdd(
                 RMul(RAdd(RMul(FromInt(2), RSquare(a)), RSquare(b)),
                      RSub(One, GC)),
                 RMul(RAdd(RMul(FromInt(2), RSquare(c)), RSquare(d)), GC)))

calculateProbHBM(mutationRate, GC) ==
    IF OutOfUnitRange(mutationRate) THEN Raise("The mutationRate is out of range.")
    ELSE IF OutOfUnitRange(GC) THEN Raise("The GC-content is out of range.")
    ELSE LET M == mutationRate
             probHBMM == calculateProbHBMM(GC).value
         IN  Return(RAdd(RMul(RSub(One, M), RSub(One, M)),
                         RMul(RMul(M, M), probHBMM)))

calculateProbHKM(mutationRate, GC, kmerSize) ==
    IF OutOfUnitRange(mutationRate) THEN Raise("The mutationRate is out of range.")
    ELSE IF OutOfUnitRange(GC) THEN Raise("The GC-content is out of range.")
    ELSE IF kmerSize < 1 THEN Raise("The k-mer size is out of range.")
    ELSE Return(RPow(calculateProbHBM(mutationRate, GC).value, kmerSize))

\* int(4.0 * kmerSize)
estimateSignatureSize(kmerSize) == Return(FromInt(4 * kmerSize))

\* the four range checks that open estimateGapSize and estimateInclusionHits
EstimateDomainError(mutationRate, GC, kmerSize, confidence) ==
    CASE OutOfUnitRange(mutationRate) -> "The mutationRate is out of range."
      [] OutOfUnitRange(GC) -> "The GC-content is out of range."
      [] kmerSize < 1 -> "The k-mer size is out of range."
      [] RLe(confidence, Zero) \/ RLe(One, confidence)
           -> "The statistical confidence is out of range."
      [] OTHER -> "ok"

estimateGapSize(mutationRate, GC, kmerSize, confidence) ==
    IF EstimateDomainError(mutationRate, GC, kmerSize, confidence) # "ok"
    THEN Raise(EstimateDomainError(mutationRate, GC, kmerSize, confidence))
    ELSE LET p == calculateProbHBM(mutationRate, GC).value
             q == RSub(One, p)
             qpk == RMul(q, RPow(p, kmerSize))
         IN  IF qpk = Zero THEN Raise("ZeroDivisionError")
             ELSE LET mean == RDiv(RSub(One, RPow(p, kmerSize)), qpk)
                      variance ==
                          RSub(RSub(RDiv(One, RSquare(qpk)),
                                    RDiv(FromInt(2 * kmerSize + 1), qpk)),
                               RDiv(p, RSquare(q)))
                  IN  IF RLt(variance, Zero)
                      THEN Raise("ValueError: math domain error")
                      ELSE Return(FromInt(CeilPlusSqrt(
                               mean, RDiv(variance, RSub(One, confidence)))))

estimateExclusionHits(totalExclusion, rate, kmerSize) == Return(One)

estimateInclusionHits(totalInclusion, mutationRate, GC, kmerSize, confidence) ==
    IF EstimateDomainError(mutationRate, GC, kmerSize, confidence) # "ok"
    THEN Raise(EstimateDomainError(mutationRate, GC, kmerSize, confidence))
    ELSE LET deviations == NormPpf(confidence)
             p == calculateProbHKM(mutationRate, GC, kmerSize).value
             q == RSub(One, p)
             mean == RMul(FromInt(totalInclusion - 1), p)
             variance == RMul(RMul(FromInt(totalInclusion - 1), p), q)
         IN  IF RLt(variance, Zero)
             THEN Raise("ValueError: math domain error")
             ELSE Return(RMax(Zero, FromInt(FloorMinusSqrt(
                      RAdd(One, mean),
                      RMul(RSquare(deviations), variance)))))

\* ------------------------------------------------------------ k-mer table
\* The k-mer file is the sequence of its lines [kmer, incount, excount].

\* estimateK: the length of the first token of the first line; an empty file
\* has no first token
estimateK(kmerFile) ==
    IF kmerFile = <<>> THEN Raise("IndexError: list index out of range")
    ELSE Return(FromInt(Len(kmerFile[1].kmer)))

\* mutant: the second test is an elif of the first
RECURSIVE buildKMersElif(_, _, _, _, _)
buildKMersElif(kmerFile, inm, exm, inhits, exhits) ==
    IF kmerFile = <<>> THEN [inmers |-> inm, exmers |-> exm]
    ELSE LET line == Head(kmerFile)
         IN  buildKMersElif(Tail(kmerFile),
                 IF RLe(inhits, FromInt(line.incount))
                 THEN inm \cup {line.kmer} ELSE inm,
                 IF ~RLe(inhits, FromInt(line.incount))
                    /\ RLe(exhits, FromInt(line.excount))
                 THEN exm \cup {line.kmer} ELSE exm,
                 inhits, exhits)

\* buildKMers: the keys of the two dictionaries after the loop over the lines
RECURSIVE buildKMers(_, _, _, _, _)
buildKMers(kmerFile, inm, exm, inhits, exhits) ==
    IF kmerFile = <<>> THEN [inmers |-> inm, exmers |-> exm]
    ELSE LET line == Head(kmerFile)
         IN  buildKMers(Tail(kmerFile),
                 IF RLe(inhits, FromInt(line.incount))
                 THEN inm \cup {line.kmer} ELSE inm,
                 IF RLe(exhits, FromInt(line.excount))
                 THEN exm \cup {line.kmer} ELSE exm,
                 inhits, exhits)

\* ------------------------------------------------------------------ Region
Region(sequence, reference, position) ==
    [sequence |-> sequence, reference |-> reference, position |-> position]

\* Signature.Signature(i, 0.0, 0.0, 0.0, sequence, reference, position)
Signature(id, r) ==
    [id |-> id, score |-> 0, inscore |-> 0, exscore |-> 0,
     sequence |-> r.sequence, reference |-> r.reference,
     position |-> r.position]

\* ----------------------------------------------------------- scanner steps
\* cfg is [k, inmers, exmers, size, gap]; st is [start, end, regions].

IsExclusionHit(kmer, ex) ==
    kmer \in ex \/ reverseComplement(kmer) \in ex

\* mutant: the reverse complement is not looked up
IsInclusionHitForwardOnly(kmer, inm) == kmer \in inm

IsInclusionHit(kmer, inm) ==
    kmer \in inm \/ reverseComplement(kmer) \in inm

\* mutant: any non-empty span is accepted
MeetsSizeNonEmpty(s, e, sz) == (e - s) >= 1

MeetsSize(s, e, sz) == (e - s) >= sz

\* mutant: the new region replaces the list
CloseRegionOverwrite(regs, ref, key, s, e, sz) ==
    IF MeetsSize(s, e, sz)
    THEN <<Region(Slice(ref, s, e), key, s)>>
    ELSE regs

\* mutant: the new region is put in front of the list
CloseRegionPrepend(regs, ref, key, s, e, sz) ==
    IF MeetsSize(s, e, sz)
    THEN <<Region(Slice(ref, s, e), key, s)>> \o regs
    ELSE regs

CloseRegion(regs, ref, key, s, e, sz) ==
    IF MeetsSize(s, e, sz)
    THEN Append(regs, Region(Slice(ref, s, e), key, s))
    ELSE regs

\* mutant: the chain starts at the first base of the window
NewChainStartAtWindow(w, kk) == w

NewChainStart(w, kk) == w + kk - 1

NewChainEnd(w) == w + 1

GapWithin(w, e, g) == (w - (e + 1)) <= g

\* mutant: the positions are not initialized per reference
BeginReferenceKeep(st) == st

BeginReference(st) == [st EXCEPT !.start = -1, !.end = -1]

\* mutant: the chain is closed but not ended
ExclusionStepKeepChain(cfg, ref, key, w, st) ==
    [start |-> st.start, end |-> st.end,
     regions |-> CloseRegion(st.regions, ref, key, st.start, st.end, cfg.size)]

ExclusionStep(cfg, ref, key, w, st) ==
    [start |-> -1, end |-> -1,
     regions |-> CloseRegion(st.regions, ref, key, st.start, st.end, cfg.size)]

InclusionStep(cfg, ref, key, w, st) ==
    LET fresh == st.start < 0 /\ st.end < 0
        s1 == IF fresh THEN NewChainStart(w, cfg.k) ELSE st.start
        e1 == IF fresh THEN NewChainEnd(w) ELSE st.end
    IN  IF s1 >= 0 /\ e1 >= 0
        THEN IF GapWithin(w, e1, cfg.gap)
             THEN [start |-> s1, end |-> NewChainEnd(w), regions |-> st.regions]
             ELSE [start |-> NewChainStart(w, cfg.k), end |-> NewChainEnd(w),
                   regions |-> CloseRegion(st.regions, ref, key, s1, e1, cfg.size)]
        ELSE [start |-> s1, end |-> e1, regions |-> st.regions]

WindowStep(cfg, ref, key, w, st) ==
    LET kmer == Slice(ref, w, w + cfg.k)
    IN  IF IsExclusionHit(kmer, cfg.exmers)
        THEN ExclusionStep(cfg, ref, key, w, st)
        ELSE IF IsInclusionHit(kmer, cfg.inmers)
             THEN InclusionStep(cfg, ref, key, w, st)
             ELSE st

\* mutant: the chain open after the last window is dropped
FinalCloseDropped(cfg, ref, key, st) == st.regions

\* lines 257-259: the region still open after the last window
FinalClose(cfg, ref, key, st) ==
    IF st.start >= 0 /\ st.end > 0 /\ MeetsSize(st.start, st.end, cfg.size)
    THEN Append(st.regions, Region(Slice(ref, st.start, st.end), key, st.start))
    ELSE st.regions

\* -------------------------------------------------------------- validation
\* mutant: the gap is not validated
ExtractErrorNoGapCheck(refs, kk, inm, exm, sz, g, nones) ==
    CASE "references" \in nones \/ Len(refs) < 1 -> "There are no references."
      [] kk < 1 -> "The k-mer size is out of range."
      [] "inmers" \in nones \/ Cardinality(inm) < 1 -> "There are no inclusion k-mers."
      [] "exmers" \in nones -> "There are no exclusion k-mers."
      [] sz < 1 -> "The signature size is out of range."
      [] "outputFile" \in nones -> "The output location is not specified."
      [] OTHER -> "ok"

ExtractError(refs, kk, inm, exm, sz, g, nones) ==
    CASE "references" \in nones \/ Len(refs) < 1 -> "There are no references."
      [] kk < 1 -> "The k-mer size is out of range."
      [] "inmers" \in nones \/ Cardinality(inm) < 1 -> "There are no inclusion k-mers."
      [] "exmers" \in nones -> "There are no exclusion k-mers."
      [] sz < 1 -> "The signature size is out of range."
      [] g < 1 -> "The gap size is out of range."
      [] "outputFile" \in nones -> "The output location is not specified."
      [] OTHER -> "ok"

\* ------------------------------------------------------------------- state
VARIABLES
    references, k, inmers, exmers, size, gap, noneArgs,  \* extract's arguments
    pc,          \* position in extract
    keyIdx,      \* index of the reference being scanned (0 before the loop)
    i,           \* next window of the current reference
    start, end,  \* the open chain, -1/-1 when there is none
    regions,     \* the regions list
    written,     \* the records written to outputFile
    estArgs, estCall, estResult,  \* an estimator call: arguments, name, outcome
    parameters,  \* parse: the command-line values, each given or None
    kmerFile,    \* parse: the lines of the k-mer file
    estimates,   \* parse: what the statistical estimators return in this run
    resolved     \* parse: the local variables holding the values in use

vars == <<references, k, inmers, exmers, size, gap, noneArgs,
          pc, keyIdx, i, start, end, regions, written,
          estArgs, estCall, estResult,
          parameters, kmerFile, estimates, resolved>>

estimator == <<estArgs, estCall, estResult>>

parsing == <<parameters, kmerFile, estimates, resolved>>

scanner == <<keyIdx, i, start, end, regions, written>>

args == <<references, k, inmers, exmers, size, gap, noneArgs>>

Cfg == [k |-> k, inmers |-> inmers, exmers |-> exmers, size |-> size, gap |-> gap]

St == [start |-> start, end |-> end, regions |-> regions]

CurKey == references[keyIdx].key

CurRef == references[keyIdx].seq

CurKmer == Slice(CurRef, i, i + k)

\* ------------------------------------------------------------------ inputs
SeqsUpTo(S, n) == UNION {[1..m -> S] : m \in 0..n}

\* k-mer sets: for every set L of letters, the k-mers written in L
KmerSets(kk) == {[1..kk -> L] : L \in SUBSET SetBases}

\* reference collections of at most n non-empty references and at most budget
\* bases in all
RECURSIVE RefLists(_, _)
RefLists(n, budget) ==
    IF n = 0 THEN {<<>>}
    ELSE {<<>>} \cup
         UNION {{<<r>> \o c : c \in RefLists(n - 1, budget - Len(r))}
                : r \in SeqsUpTo(RefBases, budget) \ {<<>>}}

Keyed(c) == [j \in 1..Len(c) |-> [key |-> j, seq |-> c[j]]]

\* placeholders of the variables a specification does not use
NoResult == [ok |-> FALSE, value |-> Zero, error |-> "not called"]

NoArgs ==
    [totalInclusion |-> 0, mutationRate |-> Zero, GC |-> Zero,
     kmerSize |-> 0, confidence |-> Zero]

EstimatorIdle ==
    /\ estArgs = NoArgs
    /\ estCall = "none"
    /\ estResult = NoResult

None == [given |-> FALSE, val |-> 0]

NoneFloat == [given |-> FALSE, val |-> Zero]

NoParameters ==
    [referenceSize |-> None, gcContent |-> NoneFloat, rate |-> NoneFloat,
     confidence |-> NoneFloat, inhits |-> None, exhits |-> None,
     gap |-> None, size |-> None]

Unresolved ==
    [referenceSize |-> 0, GC |-> Zero, rate |-> Zero, confidence |-> Zero,
     k |-> 0, inhits |-> Zero, exhits |-> Zero, gap |-> 0, size |-> 0]

NoEstimates == [referenceSize |-> 0, GC |-> Zero, inhits |-> 0, gap |-> 0]

ParseIdle ==
    /\ parameters = NoParameters
    /\ kmerFile = <<>>
    /\ estimates = NoEstimates
    /\ resolved = Unresolved

ScannerStart ==
    /\ pc = "extract"
    /\ keyIdx = 0
    /\ i = 0
    /\ start = -1
    /\ end = -1
    /\ regions = <<>>
    /\ written = <<>>

InitValid ==
    /\ references \in {Keyed(c) : c \in RefLists(MaxRefs, MaxRefLen) \ {<<>>}}
    /\ k \in 1..MaxK
    /\ inmers \in KmerSets(k) \ {{}}
    /\ exmers \in KmerSets(k)
    /\ size \in 1..MaxSize
    /\ gap \in 1..MaxGap
    /\ noneArgs = {}
    /\ ScannerStart

\* every combination of a missing, empty or out-of-range argument
InitInvalid ==
    /\ references \in {<<>>, Keyed(<<(<<"A", "C">>)>>)}
    /\ k \in -1..1
    /\ inmers \in {{}, {<<"C">>}}
    /\ exmers = {}
    /\ size \in 0..1
    /\ gap \in 0..1
    /\ noneArgs \in SUBSET {"references", "inmers", "exmers", "outputFile"}
    /\ (("references" \in noneArgs) => references = <<>>)
    /\ (("inmers" \in noneArgs) => inmers = {})
    /\ ScannerStart

\* the reference "AAAAACCCCC" with k = 5
ScenarioRef == <<"A", "A", "A", "A", "A", "C", "C", "C", "C", "C">>

InitScenario ==
    /\ references = Keyed(<<ScenarioRef>>)
    /\ k = 5
    /\ inmers \in {{[j \in 1..5 |-> "A"]}, {[j \in 1..5 |-> "T"]}}
    /\ exmers \in {{}, {[j \in 1..5 |-> "C"]}}
    /\ size = 1
    /\ gap = 1
    /\ noneArgs = {}
    /\ ScannerStart

Init ==
    /\ InitValid \/ InitInvalid \/ InitScenario
    /\ EstimatorIdle
    /\ ParseIdle

\* ----------------------------------------------------------------- actions
ExtractRaise ==
    /\ pc = "extract"
    /\ ExtractError(references, k, inmers, exmers, size, gap, noneArgs) # "ok"
    /\ pc' = "error"
    /\ UNCHANGED <<estimator, parsing, args, keyIdx, i, start, end, regions, written>>

\* lines 201-211: regions = [], then the first reference's positions
ExtractBegin ==
    /\ pc = "extract"
    /\ ExtractError(references, k, inmers, exmers, size, gap, noneArgs) = "ok"
    /\ pc' = "scan"
    /\ keyIdx' = 1
    /\ i' = 0
    /\ start' = BeginReference(St).start
    /\ end' = BeginReference(St).end
    /\ regions' = <<>>
    /\ UNCHANGED <<estimator, parsing, args, written>>

InWindow == pc = "scan" /\ i < NumWindows(CurRef, k)

Apply(st) ==
    /\ start' = st.start
    /\ end' = st.end
    /\ regions' = st.regions
    /\ i' = i + 1
    /\ UNCHANGED <<estimator, parsing, args, pc, keyIdx, written>>

\* lines 221-230
ExclusionHit ==
    /\ InWindow
    /\ IsExclusionHit(CurKmer, exmers)
    /\ Apply(WindowStep(Cfg, CurRef, CurKey, i, St))

\* lines 234-239 (and the fall-through into 242-246)
NewChain ==
    /\ InWindow
    /\ ~IsExclusionHit(CurKmer, exmers)
    /\ IsInclusionHit(CurKmer, inmers)
    /\ start < 0 /\ end < 0
    /\ Apply(WindowStep(Cfg, CurRef, CurKey, i, St))

\* lines 242-246
ExtendChain ==
    /\ InWindow
    /\ ~IsExclusionHit(CurKmer, exmers)
    /\ IsInclusionHit(CurKmer, inmers)
    /\ start >= 0 /\ end >= 0
    /\ GapWithin(i, end, gap)
    /\ Apply(WindowStep(Cfg, CurRef, CurKey, i, St))

\* lines 242-255
BreakChain ==
    /\ InWindow
    /\ ~IsExclusionHit(CurKmer, exmers)
    /\ IsInclusionHit(CurKmer, inmers)
    /\ start >= 0 /\ end >= 0
    /\ ~GapWithin(i, end, gap)
    /\ Apply(WindowStep(Cfg, CurRef, CurKey, i, St))

\* neither branch taken
NoHit ==
    /\ InWindow
    /\ ~IsExclusionHit(CurKmer, exmers)
    /\ ~IsInclusionHit(CurKmer, inmers)
    /\ Apply(WindowStep(Cfg, CurRef, CurKey, i, St))

\* lines 257-259, then the next iteration of the loop at 204-211
EndReference ==
    /\ pc = "scan"
    /\ i >= NumWindows(CurRef, k)
    /\ regions' = FinalClose(Cfg, CurRef, CurKey, St)
    /\ IF keyIdx < Len(references)
       THEN /\ keyIdx' = keyIdx + 1
            /\ i' = 0
            /\ start' = BeginReference(St).start
            /\ end' = BeginReference(St).end
            /\ pc' = "scan"
       ELSE /\ keyIdx' = keyIdx + 1
            /\ pc' = "write"
            /\ UNCHANGED <<i, start, end>>
    /\ UNCHANGED <<estimator, parsing, args, written>>

\* lines 261-267, one iteration
WriteSignature ==
    /\ pc = "write"
    /\ Len(written) < Len(regions)
    /\ written' = Append(written,
                         Signature(Len(written), regions[Len(written) + 1]))
    /\ UNCHANGED <<estimator, parsing, args, pc, keyIdx, i, start, end, regions>>

ExtractReturn ==
    /\ pc = "write"
    /\ Len(written) >= Len(regions)
    /\ pc' = "done"
    /\ UNCHANGED <<estimator, parsing, args, keyIdx, i, start, end, regions, written>>

Next ==
    \/ ExtractRaise
    \/ ExtractBegin
    \/ ExclusionHit
    \/ NewChain
    \/ ExtendChain
    \/ BreakChain
    \/ NoHit
    \/ EndReference
    \/ WriteSignature
    \/ ExtractReturn

Spec == Init /\ [][Next]_vars

\* ------------------------------------------------------- estimator calls
MaxGenomes == 3

ProbGrid == {Rat(-1, 2), Zero, Rat(1, 2), One, Rat(3, 2)}

ConfidenceGrid == {Rat(-1, 2), Zero, Rat(1, 2), Rat(19, 20), One}

InitEstimator ==
    /\ estArgs \in [totalInclusion : 0..MaxGenomes, mutationRate : ProbGrid,
                    GC : ProbGrid, kmerSize : -1..MaxK,
                    confidence : ConfidenceGrid]
    /\ estCall = "none"
    /\ estResult = NoResult
    /\ pc = "estimate"
    /\ references = <<>> /\ k = 0 /\ inmers = {} /\ exmers = {}
    /\ size = 0 /\ gap = 0 /\ noneArgs = {}
    /\ keyIdx = 0 /\ i = 0 /\ start = -1 /\ end = -1
    /\ regions = <<>> /\ written = <<>>
    /\ ParseIdle

Called(name, outcome) ==
    /\ estCall' = name
    /\ estResult' = outcome
    /\ pc' = "returned"
    /\ UNCHANGED <<estArgs, parsing, args, scanner>>

CallCalculateProbHBMM ==
    /\ pc = "estimate"
    /\ Called("calculateProbHBMM", calculateProbHBMM(estArgs.GC))

CallCalculateProbHBM ==
    /\ pc = "estimate"
    /\ Called("calculateProbHBM",
           calculateProbHBM(estArgs.mutationRate, estArgs.GC))

CallCalculateProbHKM ==
    /\ pc = "estimate"
    /\ Called("calculateProbHKM",
           calculateProbHKM(estArgs.mutationRate, estArgs.GC, estArgs.kmerSize))

CallEstimateSignatureSize ==
    /\ pc = "estimate"
    /\ Called("estimateSignatureSize", estimateSignatureSize(estArgs.kmerSize))

CallEstimateGapSize ==
    /\ pc = "estimate"
    /\ Called("estimateGapSize",
           estimateGapSize(estArgs.mutationRate, estArgs.GC, estArgs.kmerSize,
                           estArgs.confidence))

CallEstimateExclusionHits ==
    /\ pc = "estimate"
    /\ Called("estimateExclusionHits",
           estimateExclusionHits(estArgs.totalInclusion, estArgs.mutationRate,
                                 estArgs.kmerSize))

CallEstimateInclusionHits ==
    /\ pc = "estimate"
    /\ Called("estimateInclusionHits",
           estimateInclusionHits(estArgs.totalInclusion, estArgs.mutationRate,
                                 estArgs.GC, estArgs.kmerSize,
                                 estArgs.confidence))

NextEstimator ==
    \/ CallCalculateProbHBMM
    \/ CallCalculateProbHBM
    \/ CallCalculateProbHKM
    \/ CallEstimateSignatureSize
    \/ CallEstimateGapSize
    \/ CallEstimateExclusionHits
    \/ CallEstimateInclusionHits

SpecEstimator == InitEstimator /\ [][NextEstimator]_vars

\* ------------------------------------------------------------------- parse
\* parse from line 702 on, with the references already built.  The values
\* estimateReferenceParameters, estimateInclusionHits and estimateGapSize
\* return for the run are inputs of the run (estimates): the first is not part
\* of this file, and at the defaults 0.01 and 0.95 the exact value of the other
\* two is outside TLC's integers.  Their range checks are applied as written.
Given(v) == [given |-> TRUE, val |-> v]

\* "if parameters[X]": None and zero are both false
Truthy(x) == x.given /\ x.val # 0

TruthyFloat(x) == x.given /\ x.val # Zero

DefaultRate == Rat(1, 100)

DefaultConfidence == Rat(19, 20)

KmerTable ==
    << [kmer |-> <<"C">>, incount |-> 2, excount |-> 0],
       [kmer |-> <<"T">>, incount |-> 1, excount |-> 1],
       [kmer |-> <<"G">>, incount |-> 0, excount |-> 2] >>

InitParse ==
    /\ parameters \in
         [referenceSize : {None, Given(0), Given(5)},
          gcContent : {NoneFloat, Given(Zero), Given(Rat(1, 2)), Given(Rat(3, 2))},
          rate : {NoneFloat, Given(Zero), Given(Rat(1, 2))},
          confidence : {NoneFloat, Given(Rat(1, 2))},
          inhits : {None, Given(0), Given(2)},
          exhits : {None, Given(0), Given(2)},
          gap : {None, Given(2)},
          size : {None, Given(2)}]
    /\ kmerFile \in {<<>>, KmerTable}
    /\ estimates \in [referenceSize : {4}, GC : {Rat(1, 4)},
                      inhits : 0..1, gap : {MaxGap}]
    /\ resolved = Unresolved
    /\ references = Keyed(<< <<"A", "C", "C", "A">> >>)
    /\ k = 0 /\ inmers = {} /\ exmers = {} /\ size = 0 /\ gap = 0
    /\ noneArgs = {}
    /\ pc = "parse"
    /\ keyIdx = 0 /\ i = 0 /\ start = -1 /\ end = -1
    /\ regions = <<>> /\ written = <<>>
    /\ EstimatorIdle

\* lines 702-716
ResolveReferenceSize(prm, est) ==
    IF Truthy(prm.referenceSize) THEN prm.referenceSize.val ELSE est.referenceSize

ResolveGC(prm, est) ==
    IF TruthyFloat(prm.gcContent) THEN prm.gcContent.val ELSE est.GC

ResolveRate(prm) ==
    IF TruthyFloat(prm.rate) THEN prm.rate.val ELSE DefaultRate

ResolveConfidence(prm) ==
    IF TruthyFloat(prm.confidence) THEN prm.confidence.val ELSE DefaultConfidence

\* lines 730-734
ResolveInclusionHits(prm, est, res) ==
    IF Truthy(prm.inhits) THEN Return(FromInt(prm.inhits.val))
    ELSE IF EstimateDomainError(res.rate, res.GC, res.k, res.confidence) # "ok"
    THEN Raise(EstimateDomainError(res.rate, res.GC, res.k, res.confidence))
    ELSE Return(FromInt(est.inhits))

\* lines 739-743
ResolveExclusionHits(prm, res) ==
    IF Truthy(prm.exhits) THEN Return(FromInt(prm.exhits.val))
    ELSE estimateExclusionHits(0, res.rate, res.k)

\* lines 757-761
ResolveGap(prm, est, res) ==
    IF Truthy(prm.gap) THEN Return(FromInt(prm.gap.val))
    ELSE IF EstimateDomainError(res.rate, res.GC, res.k, res.confidence) # "ok"
    THEN Raise(EstimateDomainError(res.rate, res.GC, res.k, res.confidence))
    ELSE Return(FromInt(est.gap))

\* lines 764-768
ResolveSize(prm, res) ==
    IF Truthy(prm.size) THEN Return(FromInt(prm.size.val))
    ELSE estimateSignatureSize(res.k)

ParseStep(next) ==
    /\ pc' = next
    /\ UNCHANGED <<estimator, parameters, kmerFile, estimates, scanner>>

ParseReferenceParameters ==
    /\ pc = "parse"
    /\ resolved' = [resolved EXCEPT
                      !.referenceSize = ResolveReferenceSize(parameters, estimates),
                      !.GC = ResolveGC(parameters, estimates),
                      !.rate = ResolveRate(parameters),
                      !.confidence = ResolveConfidence(parameters)]
    /\ ParseStep("parse_k")
    /\ UNCHANGED args

\* lines 718-725
ParseKmerSize ==
    /\ pc = "parse_k"
    /\ estimateK(kmerFile).ok
    /\ resolved' = [resolved EXCEPT !.k = estimateK(kmerFile).value.n]
    /\ ParseStep("parse_hits")
    /\ UNCHANGED args

\* lines 727-743
ParseHits ==
    /\ pc = "parse_hits"
    /\ ResolveInclusionHits(parameters, estimates, resolved).ok
    /\ resolved' = [resolved EXCEPT
                      !.inhits = ResolveInclusionHits(parameters, estimates,
                                                      resolved).value,
                      !.exhits = ResolveExclusionHits(parameters, resolved).value]
    /\ ParseStep("parse_kmers")
    /\ UNCHANGED args

\* lines 745-752
ParseBuildKMers ==
    /\ pc = "parse_kmers"
    /\ inmers' = buildKMers(kmerFile, {}, {}, resolved.inhits,
                            resolved.exhits).inmers
    /\ exmers' = buildKMers(kmerFile, {}, {}, resolved.inhits,
                            resolved.exhits).exmers
    /\ ParseStep("parse_gap")
    /\ UNCHANGED <<resolved, references, k, size, gap, noneArgs>>

\* lines 756-768
ParseGapSize ==
    /\ pc = "parse_gap"
    /\ ResolveGap(parameters, estimates, resolved).ok
    /\ resolved' = [resolved EXCEPT
                      !.gap = ResolveGap(parameters, estimates, resolved).value.n,
                      !.size = ResolveSize(parameters, resolved).value.n]
    /\ ParseStep("parse_extract")
    /\ UNCHANGED args

\* lines 779-782: the call of extract
ParseExtract ==
    /\ pc = "parse_extract"
    /\ k' = resolved.k
    /\ size' = resolved.size
    /\ gap' = resolved.gap
    /\ noneArgs' = {}
    /\ ParseStep("extract")
    /\ UNCHANGED <<resolved, references, inmers, exmers>>

\* an estimator or estimateK raises: parse ends
ParseRaise ==
    /\ \/ pc = "parse_k" /\ ~estimateK(kmerFile).ok
       \/ pc = "parse_hits"
            /\ ~ResolveInclusionHits(parameters, estimates, resolved).ok
       \/ pc = "parse_gap" /\ ~ResolveGap(parameters, estimates, resolved).ok
    /\ ParseStep("error")
    /\ UNCHANGED <<resolved, args>>

NextParse ==
    \/ ParseReferenceParameters
    \/ ParseKmerSize
    \/ ParseHits
    \/ ParseBuildKMers
    \/ ParseGapSize
    \/ ParseExtract
    \/ ParseRaise

SpecParse == InitParse /\ [][NextParse]_vars

\* -------------------------------------------------------------- buildKMers
\* buildKMers called as parse calls it (lines 748-750), with two empty
\* dictionaries, over every table of at most MaxLines lines.
MaxLines == 2

MaxCount == 2

KmerLines ==
    [kmer : [1..1 -> SetBases], incount : 0..MaxCount, excount : 0..MaxCount]

InitBuildKMers ==
    /\ kmerFile \in SeqsUpTo(KmerLines, MaxLines)
    /\ resolved \in {[Unresolved EXCEPT !.inhits = FromInt(a),
                                        !.exhits = FromInt(b)]
                      : a \in 0..(MaxCount + 1), b \in 0..(MaxCount + 1)}
    /\ parameters = NoParameters
    /\ estimates = NoEstimates
    /\ pc = "build"
    /\ references = <<>> /\ k = 0 /\ inmers = {} /\ exmers = {}
    /\ size = 0 /\ gap = 0 /\ noneArgs = {}
    /\ keyIdx = 0 /\ i = 0 /\ start = -1 /\ end = -1
    /\ regions = <<>> /\ written = <<>>
    /\ EstimatorIdle

CallBuildKMers ==
    /\ pc = "build"
    /\ inmers' = buildKMers(kmerFile, {}, {}, resolved.inhits,
                            resolved.exhits).inmers
    /\ exmers' = buildKMers(kmerFile, {}, {}, resolved.inhits,
                            resolved.exhits).exmers
    /\ pc' = "built"
    /\ UNCHANGED <<estimator, parsing, scanner,
                   references, k, size, gap, noneArgs>>

NextBuildKMers == CallBuildKMers

SpecBuildKMers == InitBuildKMers /\ [][NextBuildKMers]_vars

\* ------------------------------------------------------------------ claims
KmerAt(w) == Slice(CurRef, w, w + k)

Idle == start = -1 /\ end = -1

LastRegion(regs) == regs[Len(regs)]

IsPrefixOf(a, b) == Len(a) <= Len(b) /\ SubSeq(b, 1, Len(a)) = a

\* C1: whenever a region is emitted (at an exclusion hit, at a gap break or at
\* the end of a reference) the span end - start of the closed chain is at least
\* size, the region's sequence is ref[start:end] and its length is at least size.
C1_MinimumSize ==
    [][regions' # regions =>
         /\ end - start >= size
         /\ LastRegion(regions').sequence = Slice(CurRef, start, end)
         /\ Len(LastRegion(regions').sequence) = end - start
         /\ \A n \in 1..Len(regions') : Len(regions'[n].sequence) >= size]_vars

C1_Witness ==
    /\ pc = "done"
    /\ size = 2
    /\ Len(regions) >= 2
    /\ \E n \in 1..Len(regions) : Len(regions[n].sequence) = 2

\* C2: scanning "AAAAACCCCC" with k = 5, inmers = {"AAAAA"}, no exclusion
\* k-mers, gap = 1 and size = 1 ends with exactly one region, anchored in
\* window 0 (the only matching window).
C2_OneCandidate ==
    (/\ pc = "done"
     /\ references = Keyed(<<ScenarioRef>>)
     /\ k = 5
     /\ inmers = {[j \in 1..5 |-> "A"]}
     /\ exmers = {}
     /\ gap = 1
     /\ size = 1)
    => (/\ Len(regions) = 1
        /\ regions[1].position \in 0..4
        /\ Len(written) = 1)

\* C3: after a window whose forward or reverse-complement k-mer is in exmers
\* (also when it is in inmers too) the scanner is idle: start = end = -1.
C3_ExclusionResets ==
    (pc = "scan" /\ i > 0 /\ IsExclusionHit(KmerAt(i - 1), exmers)) => Idle

\* the window before was an inclusion hit that opened a chain, this one is in
\* both sets
C3_Witness ==
    /\ pc = "scan"
    /\ i > 1
    /\ IsExclusionHit(KmerAt(i - 1), exmers)
    /\ IsInclusionHit(KmerAt(i - 1), inmers)
    /\ ~IsExclusionHit(KmerAt(i - 2), exmers)
    /\ IsInclusionHit(KmerAt(i - 2), inmers)
    /\ Idle

\* C4: no step removes or changes an emitted region: the regions list after a
\* step is the list before it with nothing or one region appended.
C4_RegionsOnlyGrow ==
    [][/\ IsPrefixOf(regions, regions')
       /\ Len(regions') <= Len(regions) + 1]_vars

\* two exclusion hits in a row, with a region of this reference emitted before
C4_Witness ==
    /\ pc = "scan"
    /\ i > 2
    /\ IsExclusionHit(KmerAt(i - 1), exmers)
    /\ IsExclusionHit(KmerAt(i - 2), exmers)
    /\ regions # <<>>
    /\ LastRegion(regions).reference = CurKey

\* C5: at a window whose forward k-mer is not in inmers, whose reverse
\* complement is, and which is no exclusion hit, the scanner makes the
\* transition it makes when the forward k-mer is in inmers, and the chain's
\* end becomes i + 1.
C5_ReverseComplementHit ==
    [][(/\ InWindow
        /\ CurKmer \notin inmers
        /\ reverseComplement(CurKmer) \in inmers
        /\ ~IsExclusionHit(CurKmer, exmers))
       => LET fwd == WindowStep([Cfg EXCEPT !.inmers = {CurKmer}],
                                CurRef, CurKey, i, St)
          IN  /\ start' = fwd.start
              /\ end' = fwd.end
              /\ regions' = fwd.regions
              /\ end' = i + 1
              /\ start' >= 0]_vars

C5_Witness ==
    /\ pc = "scan"
    /\ i > 0
    /\ KmerAt(i - 1) \notin inmers
    /\ reverseComplement(KmerAt(i - 1)) \in inmers
    /\ ~IsExclusionHit(KmerAt(i - 1), exmers)
    /\ end = i

\* C6: while a chain is open, an inclusion hit at window i extends it if and
\* only if i - j <= gap, where j = end - 1 is the window of the chain's
\* previous inclusion hit; otherwise the chain is broken and restarted at i.
C6_GapRule ==
    [][(/\ InWindow
        /\ ~IsExclusionHit(CurKmer, exmers)
        /\ IsInclusionHit(CurKmer, inmers)
        /\ start >= 0 /\ end >= 0)
       => /\ (i - (end - 1) <= gap)
               => (start' = start /\ end' = i + 1 /\ regions' = regions)
          /\ (i - (end - 1) > gap)
               => (start' = i + k - 1 /\ end' = i + 1
                   /\ regions' = CloseRegion(regions, CurRef, CurKey,
                                             start, end, size))]_vars

\* C9: extract aborts before scanning any window and before writing any record
\* when an argument is missing, empty or out of range; otherwise records are
\* written only after every reference has been scanned to its last window.
InvalidArguments ==
    \/ "references" \in noneArgs \/ references = <<>>
    \/ k < 1
    \/ "inmers" \in noneArgs \/ inmers = {}
    \/ "exmers" \in noneArgs
    \/ size < 1
    \/ gap < 1
    \/ "outputFile" \in noneArgs

C9_AbortOrComplete ==
    /\ InvalidArguments
         => (/\ pc \in {"extract", "error"}
             /\ keyIdx = 0 /\ i = 0
             /\ regions = <<>> /\ written = <<>>)
    /\ ~InvalidArguments => pc # "error"
    /\ (pc \in {"write", "done"} \/ written # <<>>)
         => (/\ keyIdx = Len(references) + 1
             /\ i >= NumWindows(references[Len(references)].seq, k))
    /\ (pc = "scan" /\ keyIdx > 1 /\ i = 0) => written = <<>>

C9_Witness ==
    /\ pc = "error"
    /\ noneArgs = {"outputFile"}
    /\ references # <<>> /\ k >= 1 /\ inmers # {} /\ size >= 1 /\ gap >= 1

\* C10: the regions of a collection are the concatenation, in iteration order,
\* of the regions of each reference scanned alone; every reference starts idle.
RECURSIVE ScanFrom(_, _, _, _, _)
ScanFrom(cfg, ref, key, w, st) ==
    IF w >= NumWindows(ref, cfg.k)
    THEN FinalClose(cfg, ref, key, st)
    ELSE ScanFrom(cfg, ref, key, w + 1, WindowStep(cfg, ref, key, w, st))

ScanAlone(cfg, ref, key) ==
    ScanFrom(cfg, ref, key, 0, [start |-> -1, end |-> -1, regions |-> <<>>])

RECURSIVE ScanEach(_, _, _)
ScanEach(cfg, refs, n) ==
    IF n = 0 THEN <<>>
    ELSE ScanEach(cfg, refs, n - 1) \o ScanAlone(cfg, refs[n].seq, refs[n].key)

C10_PerReference ==
    /\ pc \in {"write", "done"}
         => regions = ScanEach(Cfg, references, Len(references))
    /\ (pc = "scan" /\ i = 0)
         => (Idle /\ regions = ScanEach(Cfg, references, keyIdx - 1))

\* the first reference ends with its chain open, and both references give a
\* region
C10_Witness ==
    /\ pc = "done"
    /\ Len(references) = 2
    /\ IsInclusionHit(Slice(references[1].seq,
                            NumWindows(references[1].seq, k) - 1,
                            NumWindows(references[1].seq, k) - 1 + k), inmers)
    /\ \E n \in 1..Len(regions) : regions[n].reference = 1
    /\ \E n \in 1..Len(regions) : regions[n].reference = 2

\* C7: when parse has resolved its thresholds, every threshold that was given
\* a value of its documented domain holds that value.
C7_OverrideWins ==
    pc = "extract" =>
      /\ (parameters.inhits.given /\ parameters.inhits.val >= 0)
           => resolved.inhits = FromInt(parameters.inhits.val)
      /\ (parameters.exhits.given /\ parameters.exhits.val >= 0)
           => resolved.exhits = FromInt(parameters.exhits.val)
      /\ (parameters.gap.given /\ parameters.gap.val >= 1)
           => (resolved.gap = parameters.gap.val /\ gap = parameters.gap.val)
      /\ (parameters.size.given /\ parameters.size.val >= 1)
           => (resolved.size = parameters.size.val /\ size = parameters.size.val)
      /\ (parameters.rate.given /\ ~OutOfUnitRange(parameters.rate.val))
           => resolved.rate = parameters.rate.val
      /\ (parameters.confidence.given
            /\ RLt(Zero, parameters.confidence.val)
            /\ RLt(parameters.confidence.val, One))
           => resolved.confidence = parameters.confidence.val
      /\ (parameters.gcContent.given /\ ~OutOfUnitRange(parameters.gcContent.val))
           => resolved.GC = parameters.gcContent.val
      /\ (parameters.referenceSize.given /\ parameters.referenceSize.val >= 0)
           => resolved.referenceSize = parameters.referenceSize.val

\* C8: a call of a ParameterEstimator function with an argument of its own
\* outside the domain (a probability outside [0, 1], k < 1, a confidence not
\* inside (0, 1)) raises an error.
TakesRate(name) ==
    name \in {"calculateProbHBM", "calculateProbHKM", "estimateGapSize",
              "estimateInclusionHits"}

TakesGC(name) == TakesRate(name) \/ name = "calculateProbHBMM"

TakesK(name) ==
    name \in {"calculateProbHKM", "estimateSignatureSize", "estimateGapSize",
              "estimateInclusionHits"}

TakesConfidence(name) == name \in {"estimateGapSize", "estimateInclusionHits"}

ArgumentOutOfDomain ==
    \/ TakesRate(estCall) /\ OutOfUnitRange(estArgs.mutationRate)
    \/ TakesGC(estCall) /\ OutOfUnitRange(estArgs.GC)
    \/ TakesK(estCall) /\ estArgs.kmerSize < 1
    \/ TakesConfidence(estCall)
         /\ (RLe(estArgs.confidence, Zero) \/ RLe(One, estArgs.confidence))

C8_EstimatorsValidate ==
    (pc = "returned" /\ ArgumentOutOfDomain) => ~estResult.ok

\* C11: two regions emitted one after the other from the same reference lie
\* left to right and do not overlap: the second starts at or after the position
\* where the first ends, so positions strictly increase.
C11_LeftToRight ==
    \A n \in 1..(Len(regions) - 1) :
        regions[n].reference = regions[n + 1].reference
          => /\ regions[n + 1].position
                  >= regions[n].position + Len(regions[n].sequence)
             /\ regions[n + 1].position > regions[n].position

\* one reference has given three regions, the first two closed inside the scan
C11_Witness ==
    /\ pc = "done"
    /\ \E n \in 1..(Len(regions) - 2) :
          /\ regions[n].reference = regions[n + 1].reference
          /\ regions[n + 1].reference = regions[n + 2].reference

\* C12: after buildKMers, inmers is exactly the set of k-mers of the table
\* with an inclusion count of at least inhits and exmers exactly the set of
\* k-mers with an exclusion count of at least exhits; a k-mer passing both
\* tests is in both sets.
InclusionSet ==
    {kmerFile[n].kmer :
       n \in {m \in 1..Len(kmerFile) :
                 RLe(resolved.inhits, FromInt(kmerFile[m].incount))}}

ExclusionSet ==
    {kmerFile[n].kmer :
       n \in {m \in 1..Len(kmerFile) :
                 RLe(resolved.exhits, FromInt(kmerFile[m].excount))}}

Building == start >= 0 /\ end >= 0

EmitsIffSpanMeetsSize ==
    IF end - start >= size
    THEN regions' = Append(regions, [sequence |-> Slice(CurRef, start, end),
                                     reference |-> CurKey,
                                     position |-> start])
    ELSE regions' = regions

C13_CloseEmits ==
    [][(pc = "scan" /\ Building) =>
         /\ (InWindow /\ IsExclusionHit(CurKmer, exmers))
              => EmitsIffSpanMeetsSize
         /\ (/\ InWindow
             /\ ~IsExclusionHit(CurKmer, exmers)
             /\ IsInclusionHit(CurKmer, inmers)
             /\ ~GapWithin(i, end, gap))
              => (/\ EmitsIffSpanMeetsSize
                  /\ start' = i + k - 1
                  /\ end' = i + 1)
         /\ ~InWindow => EmitsIffSpanMeetsSize]_vars

\* a break has just closed a chain of this reference into a region and opened
\* a new chain at the window
C13_Witness ==
    /\ pc = "scan"
    /\ i > 0
    /\ ~IsExclusionHit(KmerAt(i - 1), exmers)
    /\ IsInclusionHit(KmerAt(i - 1), inmers)
    /\ start = i + k - 2
    /\ end = i
    /\ regions # <<>>
    /\ LastRegion(regions).reference = CurKey
    /\ LastRegion(regions).position + Len(LastRegion(regions).sequence) + 1 + gap
         < i

\* C14: while a chain is open, start is i_first + k - 1 and end is
\* i_last + 1, where i_first and i_last are the windows of the chain's first
\* and most recent inclusion hit; so for k > 2 start is greater than end right
\* after a chain opens, and for k >= 2 a chain of a single hit gives no region.
FirstHit == start - (k - 1)

LastHit == end - 1

IsChainHit(w) ==
    ~IsExclusionHit(KmerAt(w), exmers) /\ IsInclusionHit(KmerAt(w), inmers)

ChainBookkeeping ==
    pc = "scan" =>
      /\ Idle \/ Building
      /\ Building =>
           /\ 0 <= FirstHit /\ FirstHit <= LastHit /\ LastHit < i
           /\ IsChainHit(FirstHit)
           /\ IsChainHit(LastHit)
           /\ \A w \in (LastHit + 1)..(i - 1) :
                 ~IsInclusionHit(KmerAt(w), inmers)
           /\ \A w \in FirstHit..(i - 1) : ~IsExclusionHit(KmerAt(w), exmers)

ChainStep ==
    /\ (InWindow /\ IsChainHit(i)) =>
         /\ end' = i + 1
         /\ start' = i + k - 1 \/ (Building /\ start' = start)
         /\ Idle => start' = i + k - 1
         /\ (start' = i + k - 1 /\ k > 2) => start' > end'
    /\ (pc = "scan" /\ regions' # regions /\ k >= 2) => FirstHit < LastHit

C14_AnchorAndCursor == []ChainBookkeeping /\ [][ChainStep]_vars

\* k = 5: a chain has just opened at window 0 with start = 4 and end = 1
C14_Witness ==
    /\ pc = "scan"
    /\ k > 2
    /\ i = 1
    /\ IsChainHit(0)
    /\ start = k - 1
    /\ end = 1
    /\ start > end
====
